---- MODULE Spec2Model ----
(***************************************************************************)
(* A model of the language-resolution and content-fallback engine of the   *)
(* LinuxToys site: TranslationManager (src/unnamed/part_000) and           *)
(* ContentLoader (src/js/content-loader.js).                               *)
(*                                                                         *)
(* Execution is single-threaded and event-driven: every action below is    *)
(* one run-to-completion step of the event loop, i.e. the code between two *)
(* awaits.  An asynchronous call is a task whose pc names the await it is  *)
(* suspended on.                                                           *)
(***************************************************************************)
EXTENDS Integers, Sequences, FiniteSets, TLC

(***************************************************************************)
(* Bounds of the model.                                                    *)
(***************************************************************************)
\* number of language-button clicks (setLanguage calls) in one page life
MaxClicks == 2
\* longest navigator.languages list drawn for detectBrowserLanguage
MaxBrowserLangs == 2

(***************************************************************************)
(* Values.                                                                 *)
(***************************************************************************)
\* JavaScript null / undefined / an absent property
None == "<none>"

\* the language codes that occur: the two supported at construction and one
\* that addSupportedLanguage can add
LangCodes == {"en", "pt", "ga"}

\* the data-key values of the page's translatable elements; "toggle-button"
\* is the special key of updateToggleButton
PlainKeys == {"k1", "k2", "k3", "k4"}
ToggleKey == "toggle-button"
ToggleLessKey == "toggle-button-less"
ElementKeys == PlainKeys \cup {ToggleKey}
BundleKeys == ElementKeys \cup {ToggleLessKey}

VARIABLES
  \* ---- TranslationManager fields
  currentLang,         \* this.currentLang
  translations,        \* this.translations: language -> bundle object or None
  supportedLanguages,  \* this.supportedLanguages (an array)
  \* ---- the page and the browser, as TranslationManager sees them
  stored,              \* localStorage 'preferredLanguage' (None: absent)
  navigator,           \* the navigator language properties
  source,              \* translations/<L>.json as served: key -> string or None
  fetched,             \* language -> number of fetches of translations/<L>.json
  dom,                 \* element (by data-key) -> text shown
  expanded,            \* the toggle button's list carries class 'expanded'
  docLang,             \* document.documentElement.lang
  btnActive,           \* language buttons styled as active
  wired,               \* languages whose button has a click listener
  toolsLoader,         \* window.toolsLoader.onLanguageChange is registered
  hookCalls,           \* argument of the latest onLanguageChange call made
  events,              \* language of the latest languageChanged event
  task,                \* the asynchronous calls: 0 is init, 1.. are setLanguage
  lastCall,            \* the latest loadTranslations call that has returned
  detected,            \* the latest direct detectBrowserLanguage() call: the
                       \* supported languages it read and what it returned
  \* ---- ContentLoader fields and the page as ContentLoader sees it
  contentType,         \* this.contentType
  location,            \* window.location: the content parameter and the path
  loadingHidden,       \* #content-loading carries class 'hidden'
  contentHidden,       \* #markdown-content carries class 'hidden'
  errorHidden,         \* #content-error carries class 'hidden'
  contentHTML,         \* innerHTML of #markdown-content
  docTitle,            \* document.title
  metaDescription,     \* the content attribute of #page-description
  docFetches,          \* the languages of the document fetches issued, in order
  contentLoaderRef,    \* window.contentLoader is set
  loader               \* the asynchronous call ContentLoader.init()

tmVars == <<currentLang, translations, supportedLanguages, stored, navigator,
            source, fetched, dom, expanded, docLang, btnActive, wired,
            toolsLoader, hookCalls, events, task, lastCall>>

clVars == <<contentType, location, loadingHidden, contentHidden, errorHidden,
            contentHTML, docTitle, metaDescription, docFetches,
            contentLoaderRef, loader>>

vars == <<tmVars, detected, clVars>>

(***************************************************************************)
(* Strings of the browser.  A language tag is a sequence of characters, so *)
(* that split('-') and toLowerCase() are computed, not assumed.            *)
(***************************************************************************)
UpperCase == <<"A","B","C","D","E","F","G","H","I","J","K","L","M",
               "N","O","P","Q","R","S","T","U","V","W","X","Y","Z">>
LowerCase == <<"a","b","c","d","e","f","g","h","i","j","k","l","m",
               "n","o","p","q","r","s","t","u","v","w","x","y","z">>

\* an undefined navigator property
Undefined == <<"undefined">>

\* Boolean(x) of a navigator property: undefined and '' are falsy
Truthy(tag) == tag # Undefined /\ tag # <<>>

\* String.prototype.toLowerCase, character by character
toLowerCaseChar(c) ==
  IF \E i \in 1..Len(UpperCase) : UpperCase[i] = c
    THEN LowerCase[CHOOSE i \in 1..Len(UpperCase) : UpperCase[i] = c]
    ELSE c

toLowerCase(s) == [i \in 1..Len(s) |-> toLowerCaseChar(s[i])]

\* s.split('-')[0]: the text before the first hyphen (all of s without one)
splitFirst(s) ==
  IF \E i \in 1..Len(s) : s[i] = "-"
    THEN SubSeq(s, 1, (CHOOSE i \in 1..Len(s) :
                         s[i] = "-" /\ \A j \in 1..(i-1) : s[j] # "-") - 1)
    ELSE s

\* the JavaScript string a character sequence stands for
RECURSIVE StringOf(_)
StringOf(s) == IF s = <<>> THEN "" ELSE Head(s) \o StringOf(Tail(s))

\* Array.prototype.filter(Boolean) on the navigator properties
RECURSIVE filterBoolean(_)
filterBoolean(list) ==
  IF list = <<>> THEN <<>>
  ELSE IF Truthy(Head(list)) THEN <<Head(list)>> \o filterBoolean(Tail(list))
  ELSE filterBoolean(Tail(list))

\* Array.prototype.includes
includes(array, x) == \E i \in 1..Len(array) : array[i] = x

(***************************************************************************)
(* TranslationManager: constants of the constructor.                       *)
(***************************************************************************)
fallbackLang == "en"

InitialSupportedLanguages == <<"en", "pt">>

(***************************************************************************)
(* detectBrowserLanguage                                                   *)
(***************************************************************************)
\* the list detectBrowserLanguage walks; navigator.languages is a sequence,
\* with the undefined one read as [] as (navigator.languages || []) does
browserLanguagesOf(nav) ==
  filterBoolean(<<nav.language>> \o nav.languages
                \o <<nav.userLanguage, nav.browserLanguage, nav.systemLanguage>>)

\* the langCode of one browser language, line 24
langCodeOf(browserLang) == StringOf(toLowerCase(splitFirst(browserLang)))

\* detectLoop with a fault: only the first browser language is looked at
detectLoopFirstOnly(browserLanguages, supported) ==
  IF browserLanguages = <<>> THEN fallbackLang
  ELSE IF includes(supported, langCodeOf(Head(browserLanguages)))
    THEN langCodeOf(Head(browserLanguages))
  ELSE fallbackLang

RECURSIVE detectLoop(_, _)
detectLoop(browserLanguages, supported) ==
  IF browserLanguages = <<>> THEN fallbackLang
  ELSE IF includes(supported, langCodeOf(Head(browserLanguages)))
    THEN langCodeOf(Head(browserLanguages))
  ELSE detectLoop(Tail(browserLanguages), supported)

detectBrowserLanguage(nav, supported) ==
  detectLoop(browserLanguagesOf(nav), supported)

(***************************************************************************)
(* Translation bundles.  A bundle object is identified by the fetch that   *)
(* produced it: response.json() builds a new object on every call.         *)
(***************************************************************************)
\* this.translations[L] of a language never stored: undefined
Absent == [lang |-> None, ver |-> 0]

\* the object literal {} that loadTranslations returns when all has failed
EmptyObject == [lang |-> "{}", ver |-> 0]

\* the object response.json() yields for the ver-th fetch of language L
BundleObject(L, ver) == [lang |-> L, ver |-> ver]

\* the value of bundle[key]: undefined for a key the object does not have
Lookup(src, bundle, key) ==
  IF bundle.lang \in LangCodes THEN src[bundle.lang][key] ELSE None

\* truthiness of a translation value: undefined and '' are falsy
TruthyText(text) == text # None /\ text # ""

\* the text a translation file holds for a key
TextOf(L, key) == L \o ":" \o key

\* translation files as they may be served
FullFile(L) == [k \in BundleKeys |-> TextOf(L, k)]

PartialFile(L) ==
  [k \in BundleKeys |-> IF k = "k1" THEN TextOf(L, k)
                        ELSE IF k = "k2" THEN "" ELSE None]

EnglishFile == [k \in BundleKeys |-> IF k = "k4" THEN None ELSE TextOf("en", k)]

SourceChoices ==
  { [L \in LangCodes |-> IF L = "en" THEN EnglishFile
                         ELSE IF L = "pt" THEN ptFile ELSE PartialFile(L)] :
      ptFile \in {FullFile("pt"), PartialFile("pt")} }

\* the text of the elements before any translation is applied
OriginalText(key) == "html:" \o key

(***************************************************************************)
(* updatePageTranslations, updateToggleButton                              *)
(***************************************************************************)
\* const currentTranslations = this.translations[this.currentLang]
\*                             || this.translations[this.fallbackLang] || {}
currentTranslationsOf(tr, cur) ==
  IF tr[cur] # Absent THEN tr[cur]
  ELSE IF tr[fallbackLang] # Absent THEN tr[fallbackLang]
  ELSE EmptyObject

updateToggleButton(src, bundle, isExpanded) ==
  IF isExpanded
    THEN IF TruthyText(Lookup(src, bundle, ToggleLessKey))
           THEN Lookup(src, bundle, ToggleLessKey) ELSE "Show Less"
    ELSE IF TruthyText(Lookup(src, bundle, ToggleKey))
           THEN Lookup(src, bundle, ToggleKey) ELSE "Show Tools"

\* the new text of every element carrying data-key.  The title attribute
\* and the innerHTML/textContent choice receive the same string and are
\* not told apart.
updatePageTranslations(d, tr, cur, src, isExpanded) ==
  LET bundle == currentTranslationsOf(tr, cur) IN
  [key \in ElementKeys |->
     IF key = ToggleKey THEN updateToggleButton(src, bundle, isExpanded)
     ELSE IF TruthyText(Lookup(src, bundle, key)) THEN Lookup(src, bundle, key)
     ELSE d[key]]

\* updateLanguageButtons: the buttons styled as active afterwards; only the
\* buttons of supported languages are restyled
ButtonLangs == LangCodes

updateLanguageButtons(active, supported, cur) ==
  {L \in ButtonLangs :
     IF includes(supported, L) THEN L = cur ELSE L \in active}

\* setupLanguageSwitchers with a fault: every button is wired, supported or not
setupLanguageSwitchersAllButtons(w, supported) == w \cup ButtonLangs

\* setupLanguageSwitchers: every supported language with a button is wired
setupLanguageSwitchers(w, supported) ==
  w \cup {L \in ButtonLangs : includes(supported, L)}

(***************************************************************************)
(* Asynchronous calls.  task[0] is init(), task[1..MaxClicks] are the      *)
(* setLanguage calls made by the click listeners.                          *)
(*   pc     "idle"    not called yet                                       *)
(*          "fetch"   loadTranslations suspended on  await fetch(...)      *)
(*          "json"    loadTranslations suspended on  await response.json() *)
(*          "done"    the call has completed                               *)
(*          "threw"   the call has ended by an exception                   *)
(*   arg    setLanguage's argument; init's initialLanguage once chosen     *)
(*   ltArg  the argument of the caller's loadTranslations call             *)
(*   ltCur  the language of the innermost loadTranslations activation      *)
(*   ltVer  which fetch of ltCur that activation awaits                    *)
(*   failed the languages whose load has reached the catch block so far    *)
(* The fields of a loadTranslations call are cleared when it returns;      *)
(* lastCall then holds its caller, argument, failures and returned value.  *)
(*                                                                         *)
(* A settled fetch or body read is delivered by one task of the event      *)
(* loop, and the continuations it wakes (the rest of loadTranslations, its *)
(* return through `return await`, the rest of the caller up to the next    *)
(* await) run as microtasks of that same task, before any other fetch is   *)
(* delivered or any click is handled.  So each action below runs the code  *)
(* from one await to the next.                                             *)
(***************************************************************************)
InitTask == 0
ClickTasks == 1..MaxClicks
Tasks == {InitTask} \cup ClickTasks

IdleTask == [pc |-> "idle", arg |-> None, ltArg |-> None, ltCur |-> None,
             ltVer |-> 0, failed |-> {}]

NoCall == [caller |-> -1, arg |-> None, failed |-> {}, ret |-> Absent]

\* localStorage values drawn for the stored preference
StoredChoices == {None, "", "en", "pt", "ga"}

\* language tags drawn for the navigator properties
TagPtBR == <<"p","t","-","B","R">>
TagEnUS == <<"e","n","-","U","S">>
TagFrFR == <<"f","r","-","F","R">>
TagGa == <<"g","a">>
TagPTbr == <<"P","T","-","b","r">>

Navigator(language, languages, userLanguage) ==
  [language |-> language, languages |-> languages,
   userLanguage |-> userLanguage, browserLanguage |-> Undefined,
   systemLanguage |-> Undefined]

\* the browsers of the page-life specification
NavigatorChoices ==
  { Navigator(TagPtBR, <<TagPtBR, TagEnUS>>, Undefined),
    Navigator(TagFrFR, <<TagFrFR, TagGa>>, Undefined),
    Navigator(Undefined, <<>>, TagEnUS) }

NotDetected == [supported |-> <<>>, value |-> None]

\* the state the constructor leaves, on a page nothing has run on yet
TMConstructed ==
  /\ currentLang = "en"
  /\ translations = [L \in LangCodes |-> Absent]
  /\ supportedLanguages = InitialSupportedLanguages
  /\ fetched = [L \in LangCodes |-> 0]
  /\ dom = [key \in ElementKeys |-> OriginalText(key)]
  /\ docLang = None
  /\ btnActive = {}
  /\ wired = {}
  /\ hookCalls = None
  /\ events = None
  /\ task = [t \in Tasks |-> IdleTask]
  /\ lastCall = NoCall

(***************************************************************************)
(* The callers' continuations.  `tr` is the cache and `tk` the task record *)
(* as the step has left them so far.                                       *)
(***************************************************************************)
\* initialLanguageOf with a fault: the saved preference is not checked against
\* the supported languages
initialLanguageOfUnchecked(savedLang, nav, supported) ==
  IF TruthyText(savedLang)
    THEN savedLang
    ELSE detectBrowserLanguage(nav, supported)

\* lines 144-156: the saved preference if truthy and supported, else the
\* detected browser language
initialLanguageOf(savedLang, nav, supported) ==
  IF TruthyText(savedLang) /\ includes(supported, savedLang)
    THEN savedLang
    ELSE detectBrowserLanguage(nav, supported)

\* the call loadTranslations(L) up to its first await: the fetch is issued
CallLoadTranslations(t, L, tk) ==
  /\ task' = [tk EXCEPT ![t].pc = "fetch", ![t].ltArg = L, ![t].ltCur = L,
                        ![t].ltVer = fetched[L] + 1, ![t].failed = {}]
  /\ fetched' = [fetched EXCEPT ![L] = @ + 1]

\* InitFinish with a fault: init gives up when the bundle of the initial
\* language is not in the cache
InitFinishRequiresBundle(initialLanguage, tr, tk) ==
  IF tr[initialLanguage] = Absent
    THEN /\ task' = [tk EXCEPT ![InitTask].pc = "threw",
                               ![InitTask].arg = initialLanguage]
         /\ UNCHANGED <<currentLang, dom, btnActive, wired, fetched, docLang,
                        hookCalls, events, stored>>
    ELSE /\ currentLang' = initialLanguage
         /\ dom' = updatePageTranslations(dom, tr, initialLanguage, source,
                                          expanded)
         /\ btnActive' = updateLanguageButtons(btnActive, supportedLanguages,
                                               initialLanguage)
         /\ wired' = setupLanguageSwitchers(wired, supportedLanguages)
         /\ task' = [tk EXCEPT ![InitTask].pc = "done",
                               ![InitTask].arg = initialLanguage]
         /\ fetched' = fetched
         /\ UNCHANGED <<docLang, hookCalls, events, stored>>

\* init, lines 163-172: the part after its last await
InitFinish(initialLanguage, tr, tk) ==
  /\ currentLang' = initialLanguage
  /\ dom' = updatePageTranslations(dom, tr, initialLanguage, source, expanded)
  /\ btnActive' = updateLanguageButtons(btnActive, supportedLanguages,
                                        initialLanguage)
  /\ wired' = setupLanguageSwitchers(wired, supportedLanguages)
  /\ task' = [tk EXCEPT ![InitTask].pc = "done",
                        ![InitTask].arg = initialLanguage]
  /\ fetched' = fetched
  /\ UNCHANGED <<docLang, hookCalls, events, stored>>

\* init, lines 144-161: resumed after loadTranslations(this.fallbackLang),
\* it chooses the initial language and loads it unless it is the fallback
InitChoose(tr, tk) ==
  \E initialLanguage \in
       {initialLanguageOf(stored, navigator, supportedLanguages)} :
  IF initialLanguage # fallbackLang
    THEN /\ CallLoadTranslations(InitTask, initialLanguage,
                                 [tk EXCEPT ![InitTask].arg = initialLanguage])
         /\ UNCHANGED <<currentLang, dom, btnActive, wired, docLang,
                        hookCalls, events, stored>>
    ELSE InitFinish(initialLanguage, tr, tk)

\* setLanguage, lines 63-78: the part after its await.  A registered
\* onLanguageChange hook may throw, which ends the call at line 71.
SetLanguageFinish(t, language, tr, tk) ==
  \E hookThrows \in BOOLEAN :
    /\ currentLang' = language
    /\ docLang' = language
    /\ dom' = updatePageTranslations(dom, tr, language, source, expanded)
    /\ btnActive' = updateLanguageButtons(btnActive, supportedLanguages,
                                          language)
    /\ hookCalls' = IF toolsLoader THEN language ELSE hookCalls
    /\ IF toolsLoader /\ hookThrows
         THEN /\ events' = events
              /\ stored' = stored
              /\ task' = [tk EXCEPT ![t].pc = "threw", ![t].arg = language]
         ELSE /\ events' = language
              /\ stored' = language
              /\ task' = [tk EXCEPT ![t].pc = "done", ![t].arg = language]
    /\ fetched' = fetched
    /\ wired' = wired

\* the caller of loadTranslations resumes with the returned value
LoadTranslationsReturns(t, value, tr, tk0) ==
  LET tk == [tk0 EXCEPT ![t].ltArg = None, ![t].ltCur = None, ![t].ltVer = 0,
                        ![t].failed = {}] IN
  /\ lastCall' = [caller |-> t, arg |-> tk0[t].ltArg,
                  failed |-> tk0[t].failed, ret |-> value]
  /\ IF t = InitTask
       THEN IF task[t].arg = None
              THEN InitChoose(tr, tk)
              ELSE InitFinish(task[t].arg, tr, tk)
       ELSE SetLanguageFinish(t, task[t].arg, tr, tk)

(***************************************************************************)
(* loadTranslations                                                        *)
(***************************************************************************)
\* CatchLoadFailure with a fault: {} is returned without trying the fallback
CatchLoadFailureNoFallback(t) ==
  LoadTranslationsReturns(t, EmptyObject, translations,
                          [task EXCEPT ![t].failed = @ \cup {task[t].ltCur}])

\* CatchLoadFailure with a fault: the error is thrown again once the fallback
\* language has failed
CatchLoadFailureRethrows(t) ==
  LET tk == [task EXCEPT ![t].failed = @ \cup {task[t].ltCur}] IN
  IF task[t].ltCur # fallbackLang
    THEN /\ task' = [tk EXCEPT ![t].pc = "fetch",
                               ![t].ltCur = fallbackLang,
                               ![t].ltVer = fetched[fallbackLang] + 1]
         /\ fetched' = [fetched EXCEPT ![fallbackLang] = @ + 1]
         /\ UNCHANGED <<currentLang, dom, btnActive, wired, docLang,
                        hookCalls, events, stored, lastCall>>
    ELSE /\ task' = [tk EXCEPT ![t].pc = "threw"]
         /\ UNCHANGED <<currentLang, dom, btnActive, wired, docLang,
                        hookCalls, events, stored, lastCall, fetched>>

\* the catch block: the recursive call for the fallback language, whose
\* result is returned as it is, or {}
CatchLoadFailure(t) ==
  LET tk == [task EXCEPT ![t].failed = @ \cup {task[t].ltCur}] IN
  IF task[t].ltCur # fallbackLang
    THEN /\ task' = [tk EXCEPT ![t].pc = "fetch",
                               ![t].ltCur = fallbackLang,
                               ![t].ltVer = fetched[fallbackLang] + 1]
         /\ fetched' = [fetched EXCEPT ![fallbackLang] = @ + 1]
         /\ UNCHANGED <<currentLang, dom, btnActive, wired, docLang,
                        hookCalls, events, stored, lastCall>>
    ELSE LoadTranslationsReturns(t, EmptyObject, translations, tk)

\* await fetch(...) settles: a response that is ok, a response that is not
\* (the throw of line 40), or a rejected promise
FetchSettles(t) ==
  /\ task[t].pc = "fetch"
  /\ \E outcome \in {"ok", "status", "neterr"} :
       IF outcome = "ok"
         THEN /\ task' = [task EXCEPT ![t].pc = "json"]
              /\ UNCHANGED <<currentLang, dom, btnActive, wired, docLang,
                             hookCalls, events, stored, fetched, lastCall>>
         ELSE CatchLoadFailure(t)
  /\ UNCHANGED <<translations, supportedLanguages, navigator, source,
                 expanded, toolsLoader>>
  /\ UNCHANGED <<detected, clVars>>

\* JsonSettles with a fault: the parsed object is also stored under the
\* language the caller asked for
JsonSettlesStoresForCaller(t) ==
  /\ task[t].pc = "json"
  /\ \E outcome \in {"ok", "parse"} :
       IF outcome = "ok"
         THEN LET bundle == BundleObject(task[t].ltCur, task[t].ltVer)
                  tr == [translations EXCEPT ![task[t].ltCur] = bundle,
                                             ![task[t].ltArg] = bundle]
              IN /\ translations' = tr
                 /\ LoadTranslationsReturns(t, bundle, tr, task)
         ELSE /\ translations' = translations
              /\ CatchLoadFailure(t)
  /\ UNCHANGED <<supportedLanguages, navigator, source, expanded, toolsLoader>>
  /\ UNCHANGED <<detected, clVars>>

\* await response.json() settles: the parsed object is stored and returned,
\* or the parse failure is caught
JsonSettles(t) ==
  /\ task[t].pc = "json"
  /\ \E outcome \in {"ok", "parse"} :
       IF outcome = "ok"
         THEN LET bundle == BundleObject(task[t].ltCur, task[t].ltVer)
                  tr == [translations EXCEPT ![task[t].ltCur] = bundle]
              IN /\ translations' = tr
                 /\ LoadTranslationsReturns(t, bundle, tr, task)
         ELSE /\ translations' = translations
              /\ CatchLoadFailure(t)
  /\ UNCHANGED <<supportedLanguages, navigator, source, expanded, toolsLoader>>
  /\ UNCHANGED <<detected, clVars>>

(***************************************************************************)
(* The operations that start a call.                                       *)
(***************************************************************************)
\* init() up to its first await: loadTranslations(this.fallbackLang)
InitStart ==
  /\ task[InitTask].pc = "idle"
  /\ CallLoadTranslations(InitTask, fallbackLang, task)
  /\ UNCHANGED <<currentLang, translations, supportedLanguages, stored,
                 navigator, source, dom, expanded, docLang, btnActive, wired,
                 toolsLoader, hookCalls, events, lastCall>>
  /\ UNCHANGED <<detected, clVars>>

\* setLanguage with a fault: the bundle is loaded whether cached or not
setLanguageAlwaysLoads(t, language, tr) ==
  /\ CallLoadTranslations(t, language, [task EXCEPT ![t].arg = language])
  /\ UNCHANGED <<currentLang, docLang, dom, btnActive, hookCalls,
                 events, stored, wired>>

\* setLanguage with a fault: the current language is set before the await
setLanguageSetsEarly(t, language, tr) ==
  IF tr[language] = Absent
    THEN /\ CallLoadTranslations(t, language, [task EXCEPT ![t].arg = language])
         /\ currentLang' = language
         /\ UNCHANGED <<docLang, dom, btnActive, hookCalls, events, stored,
                        wired>>
    ELSE SetLanguageFinish(t, language, tr, task)

\* setLanguage, lines 58-61, called with the cache tr
setLanguage(t, language, tr) ==
  IF tr[language] = Absent
    THEN /\ CallLoadTranslations(t, language, [task EXCEPT ![t].arg = language])
         /\ UNCHANGED <<currentLang, docLang, dom, btnActive, hookCalls,
                        events, stored, wired>>
    ELSE SetLanguageFinish(t, language, tr, task)

\* Click with a fault: the listener also starts the document load again
ClickReloadsContent(t, language) ==
  /\ task[t].pc = "idle"
  /\ t = 1 \/ task[t - 1].pc # "idle"
  /\ language \in wired
  /\ setLanguage(t, language, translations)
  /\ loadingHidden' = FALSE
  /\ contentHidden' = TRUE
  /\ errorHidden' = TRUE
  /\ loader' = [loader EXCEPT !.pc = "fetch1", !.lang = language,
                              !.failed = {}]
  /\ docFetches' = <<language>>
  /\ UNCHANGED <<translations, supportedLanguages, navigator, source,
                 expanded, toolsLoader, lastCall>>
  /\ UNCHANGED <<detected, contentType, location, contentHTML, docTitle,
                 metaDescription, contentLoaderRef>>

\* a click on the button of `language`: its listener calls setLanguage,
\* which runs to its await, or to its end when the bundle is cached
Click(t, language) ==
  /\ task[t].pc = "idle"
  /\ t = 1 \/ task[t - 1].pc # "idle"
  /\ language \in wired
  /\ setLanguage(t, language, translations)
  /\ UNCHANGED <<translations, supportedLanguages, navigator, source,
                 expanded, toolsLoader, lastCall>>
  /\ UNCHANGED <<detected, clVars>>

(***************************************************************************)
(* addSupportedLanguage                                                    *)
(***************************************************************************)
addSupportedLanguage(supported, languageCode) ==
  IF ~includes(supported, languageCode)
    THEN Append(supported, languageCode)
    ELSE supported

AddSupportedLanguage(languageCode) ==
  /\ supportedLanguages' = addSupportedLanguage(supportedLanguages, languageCode)
  /\ supportedLanguages' # supportedLanguages
  /\ UNCHANGED <<currentLang, translations, stored, navigator, source, fetched,
                 dom, expanded, docLang, btnActive, wired, toolsLoader,
                 hookCalls, events, task, lastCall>>
  /\ UNCHANGED <<detected, clVars>>

(***************************************************************************)
(* ContentLoader                                                           *)
(***************************************************************************)
\* the names getContentTypeFromPath looks for, in the order of its tests
KnownTypes == <<"handbook", "cli-mode", "knowledgebase", "credits">>

KnownTypeSet == {KnownTypes[i] : i \in 1..Len(KnownTypes)}

\* window.location: `content` is the value of the content query parameter
\* (None: no such parameter), `path` the set of the known names that occur
\* in window.location.pathname, which is all path.includes(...) reads of it
QueryChoices == {None, "", "handbook", "credits", "bogus"}

PathChoices == {{}, {"handbook"}, {"knowledgebase"}, {"cli-mode", "credits"}}

\* truthiness of a string or null
TruthyString(x) == x # None /\ x # ""

\* lines 23-30: the first known name the path includes, else null
RECURSIVE firstIncluded(_, _)
firstIncluded(names, path) ==
  IF names = <<>> THEN None
  ELSE IF Head(names) \in path THEN Head(names)
  ELSE firstIncluded(Tail(names), path)

\* getContentTypeFromPath with a fault: a default instead of null
getContentTypeFromPathDefault(path) ==
  IF firstIncluded(KnownTypes, path) = None THEN "handbook"
  ELSE firstIncluded(KnownTypes, path)

getContentTypeFromPath(path) == firstIncluded(KnownTypes, path)

\* line 11: urlParams.get('content') || this.getContentTypeFromPath()
contentTypeOf(loc) ==
  IF TruthyString(loc.content) THEN loc.content
  ELSE getContentTypeFromPath(loc.path)

\* the languages of the metadata tables of updatePageMeta that occur here
TitleLangs == {"en", "pt", "ga"}
DescriptionLangs == {"en", "pt"}

titles(type, language) ==
  IF type \in KnownTypeSet /\ language \in TitleLangs
    THEN "title:" \o type \o "/" \o language ELSE None

descriptions(type, language) ==
  IF type \in KnownTypeSet /\ language \in DescriptionLangs
    THEN "description:" \o type \o "/" \o language ELSE None

\* titleOf with a fault: the title of the requested language is not looked up
titleOfFallbackOnly(type, language) ==
  IF TruthyString(titles(type, "en")) THEN titles(type, "en")
  ELSE "LinuxToys"

\* line 195
titleOf(type, language) ==
  IF TruthyString(titles(type, language)) THEN titles(type, language)
  ELSE IF TruthyString(titles(type, "en")) THEN titles(type, "en")
  ELSE "LinuxToys"

\* line 200
descriptionOf(type, language) ==
  IF TruthyString(descriptions(type, language))
    THEN descriptions(type, language)
  ELSE IF TruthyString(descriptions(type, "en")) THEN descriptions(type, "en")
  ELSE "LinuxToys documentation"

\* the text of content/<language>/<type>.md and what marked.parse makes of it
MarkdownOf(type, language) == "md:" \o language \o "/" \o type
marked(content) == "html:" \o content

(***************************************************************************)
(* loader.pc   "idle"    init() not called yet                             *)
(*             "fetch1"  fetchMarkdownContent awaits the fetch, line 72    *)
(*             "text1"   ... awaits response.text(), line 74               *)
(*             "fetch2"  ... awaits the fallback fetch, line 83            *)
(*             "text2"   ... awaits response.text(), line 85               *)
(*             "done"    init() has completed                              *)
(* loader.lang the language loadContent read from the TranslationManager   *)
(* loader.ret  what fetchMarkdownContent returned (None: null)             *)
(* loader.failed  the languages whose attempt has failed                   *)
(***************************************************************************)
IdleLoader == [pc |-> "idle", lang |-> None, ret |-> None, failed |-> {}]

CLConstructed ==
  /\ contentType = None
  /\ location \in [content : QueryChoices, path : PathChoices]
  /\ loadingHidden \in BOOLEAN
  /\ contentHidden = TRUE
  /\ errorHidden = TRUE
  /\ contentHTML = None
  /\ docTitle = None
  /\ metaDescription = None
  /\ docFetches = <<>>
  /\ contentLoaderRef = FALSE
  /\ loader = IdleLoader

\* showError with a fault: the loading panel is left as it is
showErrorKeepsLoading ==
  /\ loadingHidden' = loadingHidden
  /\ contentHidden' = TRUE
  /\ errorHidden' = FALSE

\* lines 210-218
showError ==
  /\ loadingHidden' = TRUE
  /\ contentHidden' = TRUE
  /\ errorHidden' = FALSE

\* LoadContentResumes with a fault: the content panel is shown as soon as
\* the markup is in place, and an error thrown later is not caught
LoadContentResumesUncaught(content, ld) ==
  /\ loader' = [ld EXCEPT !.pc = "done", !.ret = content]
  /\ contentLoaderRef' = TRUE
  /\ IF TruthyString(content)
       THEN \E renderThrows \in BOOLEAN,
               metaThrows \in {"no", "page-title", "page-description"} :
              /\ contentHTML' = IF renderThrows THEN contentHTML
                                ELSE marked(content)
              /\ docTitle' = IF renderThrows THEN docTitle
                             ELSE titleOf(contentType, loader.lang)
              /\ metaDescription' =
                   IF renderThrows \/ metaThrows # "no" THEN metaDescription
                   ELSE descriptionOf(contentType, loader.lang)
              /\ IF renderThrows
                   THEN UNCHANGED <<loadingHidden, contentHidden, errorHidden>>
                   ELSE /\ loadingHidden' = TRUE
                        /\ contentHidden' = FALSE
                        /\ errorHidden' = errorHidden
       ELSE /\ showError
            /\ UNCHANGED <<contentHTML, docTitle, metaDescription>>

\* lines 46-66 and 19-20: loadContent resumes with the value returned by
\* fetchMarkdownContent, then init() sets window.contentLoader.  marked.parse
\* may throw; updatePageMeta throws at the first element the page lacks.
LoadContentResumes(content, ld) ==
  /\ loader' = [ld EXCEPT !.pc = "done", !.ret = content]
  /\ contentLoaderRef' = TRUE
  /\ IF TruthyString(content)
       THEN \E renderThrows \in BOOLEAN,
               metaThrows \in {"no", "page-title", "page-description"} :
              /\ contentHTML' = IF renderThrows THEN contentHTML
                                ELSE marked(content)
              /\ docTitle' = IF renderThrows THEN docTitle
                             ELSE titleOf(contentType, loader.lang)
              /\ metaDescription' =
                   IF renderThrows \/ metaThrows # "no" THEN metaDescription
                   ELSE descriptionOf(contentType, loader.lang)
              /\ IF renderThrows \/ metaThrows # "no"
                   THEN showError
                   ELSE /\ loadingHidden' = TRUE
                        /\ contentHidden' = FALSE
                        /\ errorHidden' = errorHidden
       ELSE /\ showError
            /\ UNCHANGED <<contentHTML, docTitle, metaDescription>>

\* FallbackAttempt with a fault: the fallback is tried for every language
FallbackAttemptAlways ==
  /\ loader' = [loader EXCEPT !.pc = "fetch2",
                              !.failed = @ \cup {loader.lang}]
  /\ docFetches' = Append(docFetches, "en")
  /\ UNCHANGED <<loadingHidden, contentHidden, errorHidden, contentHTML,
                 docTitle, metaDescription, contentLoaderRef>>

\* lines 80-92: after the first attempt has failed
FallbackAttempt ==
  LET ld == [loader EXCEPT !.failed = @ \cup {loader.lang}] IN
  IF loader.lang # "en"
    THEN /\ loader' = [ld EXCEPT !.pc = "fetch2"]
         /\ docFetches' = Append(docFetches, "en")
         /\ UNCHANGED <<loadingHidden, contentHidden, errorHidden, contentHTML,
                        docTitle, metaDescription, contentLoaderRef>>
    ELSE /\ LoadContentResumes(None, ld)
         /\ docFetches' = docFetches

\* FallbackFails with a fault: the error is shown and the load starts over
FallbackFailsStartsOver ==
  /\ showError
  /\ loader' = [loader EXCEPT !.pc = "fetch1", !.failed = {}]
  /\ UNCHANGED <<contentHTML, docTitle, metaDescription, contentLoaderRef>>

\* lines 87-92: the fallback attempt has failed too
FallbackFails ==
  LoadContentResumes(None, [loader EXCEPT !.failed = @ \cup {"en"}])

\* the document text a successful body read yields: the file may be empty
TextChoices(language) == {MarkdownOf(contentType, language), ""}

\* ContentInit with a fault: loadContent leaves the loading panel as the
\* page has it
ContentInitKeepsLoadingPanel ==
  /\ loader.pc = "idle"
  /\ contentType' = contentTypeOf(location)
  /\ IF TruthyString(contentType')
       THEN /\ loadingHidden' = loadingHidden
            /\ contentHidden' = TRUE
            /\ errorHidden' = TRUE
            /\ loader' = [loader EXCEPT !.pc = "fetch1", !.lang = currentLang]
            /\ docFetches' = Append(docFetches, currentLang)
            /\ contentLoaderRef' = contentLoaderRef
       ELSE /\ showError
            /\ loader' = [loader EXCEPT !.pc = "done"]
            /\ docFetches' = docFetches
            /\ contentLoaderRef' = TRUE
  /\ UNCHANGED <<location, contentHTML, docTitle, metaDescription>>
  /\ UNCHANGED <<tmVars, detected>>

\* ContentLoader.init(), lines 8-21, with loadContent up to its first await
ContentInit ==
  /\ loader.pc = "idle"
  /\ contentType' = contentTypeOf(location)
  /\ IF TruthyString(contentType')
       THEN /\ loadingHidden' = FALSE
            /\ contentHidden' = TRUE
            /\ errorHidden' = TRUE
            /\ loader' = [loader EXCEPT !.pc = "fetch1", !.lang = currentLang]
            /\ docFetches' = Append(docFetches, currentLang)
            /\ contentLoaderRef' = contentLoaderRef
       ELSE /\ showError
            /\ loader' = [loader EXCEPT !.pc = "done"]
            /\ docFetches' = docFetches
            /\ contentLoaderRef' = TRUE
  /\ UNCHANGED <<location, contentHTML, docTitle, metaDescription>>
  /\ UNCHANGED <<tmVars, detected>>

\* line 72 settles: ok, not ok, or rejected
DocFetchSettles ==
  /\ loader.pc = "fetch1"
  /\ \E outcome \in {"ok", "status", "neterr"} :
       IF outcome = "ok"
         THEN /\ loader' = [loader EXCEPT !.pc = "text1"]
              /\ UNCHANGED <<loadingHidden, contentHidden, errorHidden,
                             contentHTML, docTitle, metaDescription,
                             docFetches, contentLoaderRef>>
         ELSE FallbackAttempt
  /\ UNCHANGED <<contentType, location>>
  /\ UNCHANGED <<tmVars, detected>>

\* line 74 settles: the text is returned, or the read fails and is caught
DocTextSettles ==
  /\ loader.pc = "text1"
  /\ \/ \E text \in TextChoices(loader.lang) :
          /\ LoadContentResumes(text, loader)
          /\ docFetches' = docFetches
     \/ FallbackAttempt
  /\ UNCHANGED <<contentType, location>>
  /\ UNCHANGED <<tmVars, detected>>

\* line 83 settles
FallbackFetchSettles ==
  /\ loader.pc = "fetch2"
  /\ \E outcome \in {"ok", "status", "neterr"} :
       IF outcome = "ok"
         THEN /\ loader' = [loader EXCEPT !.pc = "text2"]
              /\ UNCHANGED <<loadingHidden, contentHidden, errorHidden,
                             contentHTML, docTitle, metaDescription,
                             contentLoaderRef>>
         ELSE FallbackFails
  /\ UNCHANGED <<contentType, location, docFetches>>
  /\ UNCHANGED <<tmVars, detected>>

\* line 85 settles
FallbackTextSettles ==
  /\ loader.pc = "text2"
  /\ \/ \E text \in TextChoices("en") : LoadContentResumes(text, loader)
     \/ FallbackFails
  /\ UNCHANGED <<contentType, location, docFetches>>
  /\ UNCHANGED <<tmVars, detected>>

(***************************************************************************)
(* Specifications.                                                         *)
(***************************************************************************)
TMStep ==
  \/ InitStart
  \/ \E t \in Tasks : FetchSettles(t)
  \/ \E t \in Tasks : JsonSettles(t)
  \/ \E t \in ClickTasks, language \in LangCodes : Click(t, language)
  \/ \E languageCode \in LangCodes : AddSupportedLanguage(languageCode)

\* a content page nobody has started to load
CLIdle ==
  /\ CLConstructed
  /\ location = [content |-> None, path |-> {}]
  /\ loadingHidden = FALSE

\* Spec: one page life of the TranslationManager: init, then clicks on the
\* language buttons, with addSupportedLanguage called at any time
Init ==
  /\ TMConstructed
  /\ stored \in {None, "pt"}
  /\ navigator = Navigator(TagFrFR, <<TagFrFR, TagGa>>, Undefined)
  /\ source \in SourceChoices
  /\ expanded = FALSE
  /\ toolsLoader \in BOOLEAN
  /\ detected = NotDetected
  /\ CLIdle

Next == TMStep

Spec == Init /\ [][Next]_vars

\* SpecInit: init() alone, for every stored preference and browser drawn
InitOfInit ==
  /\ TMConstructed
  /\ stored \in StoredChoices
  /\ navigator \in NavigatorChoices
  /\ source \in SourceChoices
  /\ expanded \in BOOLEAN
  /\ toolsLoader \in BOOLEAN
  /\ detected = NotDetected
  /\ CLIdle

NextOfInit ==
  \/ InitStart
  \/ FetchSettles(InitTask)
  \/ JsonSettles(InitTask)
  \/ \E languageCode \in LangCodes : AddSupportedLanguage(languageCode)

SpecInit == InitOfInit /\ [][NextOfInit]_vars

\* SpecInitFair: init() is called, and every fetch and every body read it
\* awaits settles in the end
SpecInitFair ==
  /\ InitOfInit
  /\ [][NextOfInit]_vars
  /\ WF_vars(InitStart)
  /\ WF_vars(FetchSettles(InitTask))
  /\ WF_vars(JsonSettles(InitTask))

\* SpecContent: the load of a content page: TranslationManager.init and
\* ContentLoader.init both run, the second started at any moment, so that
\* it reads whatever language is current by then
InitOfContent ==
  /\ TMConstructed
  /\ stored \in {None, "pt", "ga"}
  /\ navigator = Navigator(TagFrFR, <<TagFrFR, TagGa>>, Undefined)
  /\ source = [L \in LangCodes |-> FullFile(L)]
  /\ expanded = FALSE
  /\ toolsLoader = FALSE
  /\ detected = NotDetected
  /\ CLConstructed

NextOfContent ==
  \/ InitStart
  \/ FetchSettles(InitTask)
  \/ JsonSettles(InitTask)
  \/ \E languageCode \in LangCodes : AddSupportedLanguage(languageCode)
  \/ ContentInit
  \/ DocFetchSettles
  \/ DocTextSettles
  \/ FallbackFetchSettles
  \/ FallbackTextSettles

SpecContent == InitOfContent /\ [][NextOfContent]_vars

\* SpecContentFair: every document fetch and every body read settles in
\* the end
SpecContentFair ==
  /\ InitOfContent
  /\ [][NextOfContent]_vars
  /\ WF_vars(DocFetchSettles)
  /\ WF_vars(DocTextSettles)
  /\ WF_vars(FallbackFetchSettles)
  /\ WF_vars(FallbackTextSettles)

\* SpecPage: a content page in use: both init calls run, and the language
\* buttons are clicked while the document is loading or after
InitOfPage ==
  /\ TMConstructed
  /\ stored \in {None, "pt"}
  /\ navigator = Navigator(TagFrFR, <<TagFrFR, TagGa>>, Undefined)
  /\ source = [L \in LangCodes |-> FullFile(L)]
  /\ expanded = FALSE
  /\ toolsLoader \in BOOLEAN
  /\ detected = NotDetected
  /\ CLConstructed
  /\ location \in {[content |-> None, path |-> {}],
                   [content |-> "handbook", path |-> {}]}
  /\ loadingHidden = FALSE

NextOfPage ==
  \/ InitStart
  \/ \E t \in Tasks : FetchSettles(t)
  \/ \E t \in Tasks : JsonSettles(t)
  \/ \E t \in ClickTasks, language \in LangCodes : Click(t, language)
  \/ ContentInit
  \/ DocFetchSettles
  \/ DocTextSettles
  \/ FallbackFetchSettles
  \/ FallbackTextSettles

SpecPage == InitOfPage /\ [][NextOfPage]_vars

\* SpecDetect: detectBrowserLanguage as a function of the browser and of
\* the supported languages
DetectTags == {TagPtBR, TagEnUS, TagFrFR, TagGa, TagPTbr}

RECURSIVE SeqsUpTo(_, _)
SeqsUpTo(S, n) ==
  IF n = 0 THEN {<<>>}
  ELSE LET shorter == SeqsUpTo(S, n - 1) IN
       shorter \cup {Append(q, x) : q \in shorter, x \in S}

DetectNavigators ==
  { [language |-> language, languages |-> languages,
     userLanguage |-> userLanguage, browserLanguage |-> browserLanguage,
     systemLanguage |-> Undefined] :
      language \in {TagPtBR, TagFrFR, TagPTbr, Undefined},
      languages \in SeqsUpTo(DetectTags, MaxBrowserLangs),
      userLanguage \in {Undefined, <<>>, TagEnUS},
      browserLanguage \in {Undefined, TagGa} }

InitOfDetect ==
  /\ TMConstructed
  /\ stored = None
  /\ navigator \in DetectNavigators
  /\ source \in {[L \in LangCodes |-> FullFile(L)]}
  /\ expanded = FALSE
  /\ toolsLoader = FALSE
  /\ detected = NotDetected
  /\ CLIdle

\* a call of detectBrowserLanguage(), as getLanguageInfo() makes it
DetectCall ==
  /\ detected' = [supported |-> supportedLanguages,
                  value |-> detectBrowserLanguage(navigator, supportedLanguages)]
  /\ UNCHANGED <<tmVars, clVars>>

NextOfDetect ==
  \/ DetectCall
  \/ \E languageCode \in LangCodes : AddSupportedLanguage(languageCode)

SpecDetect == InitOfDetect /\ [][NextOfDetect]_vars

(***************************************************************************)
(* Claims.                                                                 *)
(***************************************************************************)
\* a call of loadTranslations returns in this step
LoadReturns == lastCall' # lastCall

\* C1 (as claimed): loadTranslations(L) returns a non-null mapping, and once
\* a load of L has succeeded (its bundle is in the cache) no later call
\* fetches translations/L.json again: the call returns the cached object.
C1_CachedBundleNotFetchedAgain ==
  [][ /\ \A L \in LangCodes :
           translations[L] # Absent => fetched'[L] = fetched[L]
      /\ LoadReturns => lastCall'.ret # Absent ]_vars

\* C2: a loadTranslations(L) call, L not the fallback language, whose fetch
\* of L failed and whose fetch of the fallback language did not, returns
\* the object parsed from the fallback language's file.
C2_FallbackBundleReturned ==
  ( /\ lastCall.arg \in LangCodes \ {fallbackLang}
    /\ lastCall.arg \in lastCall.failed
    /\ fallbackLang \notin lastCall.failed )
  => /\ lastCall.ret.lang = fallbackLang
     /\ lastCall.ret.ver \in 1..fetched[fallbackLang]

C2_Witness ==
  /\ lastCall.arg = "pt"
  /\ lastCall.failed = {"pt"}
  /\ lastCall.ret.lang = "en"
  /\ translations["pt"] = Absent

\* C3: a loadTranslations call in which the load of the requested language
\* and the load of the fallback language have both failed returns the
\* empty mapping, whichever language was requested; and no call ends by an
\* exception because of a failed load: only a registered onLanguageChange
\* hook, which has then been called, can make a call throw.
C3_EmptyMappingNeverRaises ==
  /\ ( /\ lastCall.arg \in LangCodes
       /\ {lastCall.arg, fallbackLang} \subseteq lastCall.failed )
     => lastCall.ret = EmptyObject
  /\ \A t \in Tasks :
       task[t].pc = "threw" => (toolsLoader /\ hookCalls # None)

C3_Witness ==
  /\ lastCall.arg = "pt"
  /\ lastCall.failed = {"pt", "en"}
  /\ lastCall.ret = EmptyObject
  /\ task[lastCall.caller].pc = "done"

\* the elements of an array, as a set
Elements(array) == {array[i] : i \in 1..Len(array)}

\* C4: init resolves the initial language to the stored preference whenever
\* one is present and is a supported language at that moment, whatever the
\* browser reports, and to the browser-language rule otherwise; and when
\* init completes, the current language is the language so resolved.
C4_StoredPreferenceWins ==
  [][ /\ (task[InitTask].arg = None /\ task'[InitTask].arg # None)
         => task'[InitTask].arg =
              IF stored # None /\ stored \in Elements(supportedLanguages)
                THEN stored
                ELSE detectBrowserLanguage(navigator, supportedLanguages)
      /\ (task[InitTask].pc # "done" /\ task'[InitTask].pc = "done")
         => currentLang' = task'[InitTask].arg ]_vars

C4_Witness ==
  /\ task[InitTask].pc = "done"
  /\ stored = "pt"
  /\ currentLang = "pt"
  /\ detectBrowserLanguage(navigator, supportedLanguages) = "en"

\* the text of a language tag before its first hyphen
PrimarySubtag(tag) ==
  LET hyphens == {i \in 1..Len(tag) : tag[i] = "-"}
      end == IF hyphens = {} THEN Len(tag)
             ELSE (CHOOSE i \in hyphens : \A j \in hyphens : i <= j) - 1
  IN [i \in 1..end |-> tag[i]]

\* the code of the first entry of `list` whose code is supported, else the
\* fallback language
FirstSupported(list, supported, Code(_)) ==
  LET matching == {i \in 1..Len(list) : Code(list[i]) \in Elements(supported)}
  IN IF matching = {} THEN fallbackLang
     ELSE Code(list[CHOOSE i \in matching : \A j \in matching : i <= j])

PlainCode(tag) == StringOf(PrimarySubtag(tag))
LowerCasedCode(tag) == StringOf(toLowerCase(PrimarySubtag(tag)))

\* C5 (as claimed): detectBrowserLanguage returns the primary subtag of the
\* first entry, in the browser's order, whose primary subtag is a supported
\* language, and the fallback language when no entry has one.
C5_FirstPrimarySubtag ==
  detected.value # None
  => detected.value =
       FirstSupported(browserLanguagesOf(navigator), detected.supported,
                      PlainCode)

\* C5 (amended): detectBrowserLanguage returns the lower-cased primary
\* subtag of the first entry, in the browser's order, whose lower-cased
\* primary subtag is a supported language, and the fallback language when
\* no entry has one.
C5_FirstLowerCasedPrimarySubtag ==
  detected.value # None
  => detected.value =
       FirstSupported(browserLanguagesOf(navigator), detected.supported,
                      LowerCasedCode)

\* the browser lists fr-FR, pt-BR, en-US and the supported set is {en, pt}
C5_Witness ==
  /\ detected.value = "pt"
  /\ detected.supported = <<"en", "pt">>
  /\ browserLanguagesOf(navigator) = <<TagFrFR, TagPtBR, TagEnUS>>

\* C6: fetchMarkdownContent issues at most two fetches, the second one only
\* after the first attempt has failed, only when the requested language is
\* not the fallback language, and always for the fallback language; once
\* it has returned, its value is the requested language's text if that
\* attempt succeeded, else the fallback language's text if that attempt was
\* made and succeeded, else the not-found signal.  Every call that has
\* left its last await has returned (none ends by an exception).
C6_TwoLevelFallbackChain ==
  /\ Len(docFetches) <= 2
  /\ Len(docFetches) >= 1 => docFetches[1] = loader.lang
  /\ Len(docFetches) = 2
     => /\ docFetches[2] = "en"
        /\ loader.lang # "en"
        /\ loader.lang \in loader.failed
  /\ loader.pc \in {"fetch1", "text1"} => docFetches = <<loader.lang>>
  /\ loader.pc \in {"fetch2", "text2"} => Len(docFetches) = 2
  /\ (loader.pc = "done" /\ TruthyString(contentType))
     => IF loader.lang \notin loader.failed
          THEN /\ loader.ret \in {MarkdownOf(contentType, loader.lang), ""}
               /\ docFetches = <<loader.lang>>
        ELSE IF loader.lang # "en" /\ "en" \notin loader.failed
          THEN /\ loader.ret \in {MarkdownOf(contentType, "en"), ""}
               /\ docFetches = <<loader.lang, "en">>
        ELSE /\ loader.ret = None
             /\ docFetches = IF loader.lang = "en" THEN <<"en">>
                             ELSE <<loader.lang, "en">>

C6_Witness ==
  /\ loader.pc = "done"
  /\ loader.lang = "ga"
  /\ loader.failed = {"ga"}
  /\ docFetches = <<"ga", "en">>
  /\ loader.ret = MarkdownOf(contentType, "en")

\* C7: with no content query parameter and a path that contains none of
\* the known names, ContentLoader.init leaves the view in the error state
\* (error shown, loading and content hidden) in its very first step, with
\* no document fetch issued then or later.
C7_UnknownIdentifierGoesToError ==
  (location.content = None /\ location.path = {} /\ loader.pc # "idle")
  => /\ loader.pc = "done"
     /\ ~errorHidden
     /\ loadingHidden
     /\ contentHidden
     /\ docFetches = <<>>
     /\ contentType = None

C7_Witness ==
  /\ location.content = None
  /\ location.path = {}
  /\ loader.pc = "done"
  /\ ~errorHidden

\* translations are applied in this step: init or a setLanguage call runs
\* its part after the await
Applied ==
  \E t \in Tasks : /\ task[t].pc \notin {"done", "threw"}
                   /\ task'[t].pc \in {"done", "threw"}

\* C8 (as claimed): whenever translations are applied, every element tagged
\* with an ordinary key shows the value of that key in the current
\* language's bundle if that bundle has the key, else its value in the
\* fallback language's bundle if that bundle has the key, and keeps its
\* text only when neither bundle has the key.  (A bundle whose value for
\* the key is the empty string is taken not to have the key.)
C8_PerKeyFallback ==
  [][ Applied =>
        \A key \in PlainKeys :
          dom'[key] =
            IF TruthyText(Lookup(source, translations'[currentLang'], key))
              THEN Lookup(source, translations'[currentLang'], key)
            ELSE IF TruthyText(Lookup(source, translations'[fallbackLang], key))
              THEN Lookup(source, translations'[fallbackLang], key)
            ELSE dom[key] ]_vars

\* setLanguage(L) is called in this step by the listener of click t while
\* L is the current language
ReinvokedBy(t) ==
  /\ task[t].pc = "idle"
  /\ task'[t].pc # "idle"
  /\ task'[t].arg = currentLang

\* C9 (as claimed): setLanguage(L) called while L is the current language
\* completes without error, leaves the current language L, and fetches no
\* bundle and changes neither the cache nor the stored preference.
C9_ReinvocationHasNoEffect ==
  [][ \A t \in ClickTasks :
        ReinvokedBy(t)
        => /\ task'[t].pc = "done"
           /\ currentLang' = currentLang
           /\ fetched' = fetched
           /\ translations' = translations
           /\ stored' = stored ]_vars

\* C9 (amended): setLanguage(L) called while L is the current language
\* leaves the current language L.  If L's bundle is cached the call runs to
\* its end at once, fetches nothing and leaves the cache as it is; it ends
\* without error and with the stored preference L (written if it was
\* absent or different), unless a registered onLanguageChange hook throws,
\* which leaves the stored preference as it was.  If L's bundle is not
\* cached (its earlier load failed) the call fetches L's bundle again.
\* Whenever a setLanguage call ends, the current language is its argument.
C9_ReinvocationKeepsLanguage ==
  [][ \A t \in ClickTasks :
        /\ ReinvokedBy(t)
           => /\ currentLang' = currentLang
              /\ translations[currentLang] # Absent
                 => /\ fetched' = fetched
                    /\ translations' = translations
                    /\ \/ task'[t].pc = "done" /\ stored' = currentLang
                       \/ /\ task'[t].pc = "threw"
                          /\ toolsLoader
                          /\ stored' = stored
              /\ translations[currentLang] = Absent
                 => /\ task'[t].pc = "fetch"
                    /\ fetched'[currentLang] = fetched[currentLang] + 1
                    /\ translations' = translations
                    /\ stored' = stored
        /\ (task[t].pc \notin {"done", "threw"}
            /\ task'[t].pc \in {"done", "threw"})
           => currentLang' = task'[t].arg ]_vars

\* init resolved pt and cached its bundle; then the pt button was clicked
C9_Witness ==
  /\ task[InitTask].pc = "done"
  /\ task[InitTask].arg = "pt"
  /\ translations["pt"] # Absent
  /\ fetched["pt"] = 1
  /\ task[1].pc = "done"
  /\ task[1].arg = "pt"
  /\ task[2].pc = "idle"
  /\ currentLang = "pt"
  /\ stored = "pt"

\* the call of task t is suspended on a bundle fetch
Suspended(t) == task[t].pc \in {"fetch", "json"}

\* C10 (as claimed): no setLanguage call starts while init or an earlier
\* setLanguage call is suspended on a bundle fetch; so when every call
\* made has ended, the current language is the one requested last.
C10_NoInterleaving ==
  [][ /\ \A t \in ClickTasks :
           (task[t].pc = "idle" /\ task'[t].pc # "idle")
           => \A u \in Tasks \ {t} : ~Suspended(u)
      /\ \A t \in ClickTasks :
           ( /\ task[t].pc \in {"done", "threw"}
             /\ \A u \in Tasks : u < t => task[u].pc \in {"done", "threw"}
             /\ \A u \in Tasks : u > t => task[u].pc = "idle" )
           => currentLang = task[t].arg ]_vars

\* the three states of the content view once init() has been called
ViewLoading == loader.pc # "idle" /\ ~loadingHidden
ViewContent == ~contentHidden
ViewError == ~errorHidden

\* C11: the content view moves Idle -> Loading -> {Content, Error} only:
\* Loading is entered from Idle alone, Content from Loading alone, Error
\* from Idle or Loading alone; once Content or Error is reached the view
\* stays there, so it never returns to Loading and Content and Error are
\* never both reached in one page life.
C11_ViewStateMachine ==
  [][ /\ ViewContent => (ViewContent' /\ ~ViewLoading' /\ ~ViewError')
      /\ ViewError => (ViewError' /\ ~ViewLoading' /\ ~ViewContent')
      /\ ViewLoading' => (loader.pc = "idle" \/ ViewLoading)
      /\ ViewContent' => (ViewLoading \/ ViewContent)
      /\ ViewError' => (loader.pc = "idle" \/ ViewLoading \/ ViewError)
      /\ ~(ViewContent' /\ ViewError') ]_vars

\* the view went Idle -> Loading -> Content, by way of the fallback document
C11_Witness ==
  /\ loader.pc = "done"
  /\ ViewContent
  /\ ~ViewLoading
  /\ ~ViewError
  /\ Len(docFetches) = 2

\* the load has ended and one of its parts has failed: no document text
\* (null or empty), or marked.parse threw (no markup was put in place), or
\* updatePageMeta threw (the description was not written)
LoadFailed ==
  /\ loader.pc = "done"
  /\ TruthyString(contentType)
  /\ \/ ~TruthyString(loader.ret)
     \/ contentHTML # marked(loader.ret)
     \/ docTitle # titleOf(contentType, loader.lang)
     \/ metaDescription # descriptionOf(contentType, loader.lang)

\* C12: every failed loadContent ends with the error panel shown and the
\* loading and content panels hidden; the content panel is visible only
\* when the load has ended with a document text, its markup in place and
\* the title and description written.
C12_FailureEndsInError ==
  /\ LoadFailed => (~errorHidden /\ loadingHidden /\ contentHidden)
  /\ ~contentHidden
     => /\ loader.pc = "done"
        /\ TruthyString(loader.ret)
        /\ contentHTML = marked(loader.ret)
        /\ docTitle = titleOf(contentType, loader.lang)
        /\ metaDescription = descriptionOf(contentType, loader.lang)
        /\ errorHidden

\* the document was fetched and rendered, then updatePageMeta threw after
\* it had written document.title: the markup is in place but not shown
C12_Witness ==
  /\ LoadFailed
  /\ TruthyString(loader.ret)
  /\ contentHTML = marked(loader.ret)
  /\ docTitle = titleOf(contentType, loader.lang)
  /\ metaDescription = None
  /\ ~errorHidden
  /\ contentHidden

\* what the elements show once the values of one bundle have been written
AppliedFrom(d, bundle) ==
  [key \in ElementKeys |->
     IF key = ToggleKey THEN updateToggleButton(source, bundle, expanded)
     ELSE IF TruthyText(Lookup(source, bundle, key))
       THEN Lookup(source, bundle, key)
     ELSE d[key]]

\* C13: when every fetch and body read settles, init() runs to its end and
\* never ends by an exception, whatever the fetches yield.  The language it
\* chooses is the one the resolution policy gives, the current language at
\* its end is the chosen one, and the elements then show the values of that
\* language's bundle, or of the fallback bundle when that one is not
\* cached, or of the empty mapping when neither is.
C13_InitAlwaysCompletes ==
  /\ [](task[InitTask].pc # "threw")
  /\ <>(task[InitTask].pc = "done")
  /\ [][ /\ (task[InitTask].arg = None /\ task'[InitTask].arg # None)
            => task'[InitTask].arg =
                 initialLanguageOf(stored, navigator, supportedLanguages)
         /\ (task[InitTask].pc # "done" /\ task'[InitTask].pc = "done")
            => /\ currentLang' = task'[InitTask].arg
               /\ dom' = AppliedFrom(dom,
                           IF translations'[currentLang'] # Absent
                             THEN translations'[currentLang']
                           ELSE IF translations'[fallbackLang] # Absent
                             THEN translations'[fallbackLang]
                           ELSE EmptyObject) ]_vars

\* every fetch failed: init has ended with the chosen language pt, nothing
\* cached and the elements as the page had them
C13_Witness ==
  /\ task[InitTask].pc = "done"
  /\ currentLang = "pt"
  /\ fetched = [L \in LangCodes |-> IF L = "en" THEN 2
                                    ELSE IF L = "pt" THEN 1 ELSE 0]
  /\ translations = [L \in LangCodes |-> Absent]
  /\ \A key \in PlainKeys : dom[key] = OriginalText(key)

\* C14: after a successful content load the title is the metadata table's
\* title for (identifier, language of the load) if the table has it, else
\* its title for (identifier, 'en') if it has that, else 'LinuxToys'; the
\* description likewise, with 'LinuxToys documentation' as the last
\* resort.  The language of the load is the one loadContent read from the
\* TranslationManager, whichever document supplied the text shown.
C14_MetadataByRequestedLanguage ==
  ~contentHidden
  => /\ docTitle =
          IF contentType \in KnownTypeSet /\ loader.lang \in TitleLangs
            THEN titles(contentType, loader.lang)
          ELSE IF contentType \in KnownTypeSet
            THEN titles(contentType, "en")
          ELSE "LinuxToys"
     /\ metaDescription =
          IF contentType \in KnownTypeSet /\ loader.lang \in DescriptionLangs
            THEN descriptions(contentType, loader.lang)
          ELSE IF contentType \in KnownTypeSet
            THEN descriptions(contentType, "en")
          ELSE "LinuxToys documentation"
     /\ docFetches[1] = loader.lang

\* a load for ga shows the English document under the ga title and, the
\* table having no ga description, the English description
C14_Witness ==
  /\ ~contentHidden
  /\ loader.lang = "ga"
  /\ contentType = "handbook"
  /\ loader.ret = MarkdownOf("handbook", "en")
  /\ docTitle = titles("handbook", "ga")
  /\ metaDescription = descriptions("handbook", "en")

\* the setLanguage call of click t ends in this step
SetLanguageEnds(t) ==
  /\ task[t].pc \notin {"done", "threw"}
  /\ task'[t].pc \in {"done", "threw"}

\* C15 (as claimed): whenever a setLanguage(L) call ends, having made L the
\* current language, the stored preference is L, whether its bundle load
\* succeeded or failed and whether or not window.toolsLoader is registered.
C15_SwitchIsPersisted ==
  [][ \A t \in ClickTasks :
        SetLanguageEnds(t)
        => /\ currentLang' = task'[t].arg
           /\ stored' = task'[t].arg ]_vars

\* a setLanguage call takes a step: it is called, or resumes after its await
SetLanguageSteps == \E t \in ClickTasks : task'[t] # task[t]

\* C16: no step of a setLanguage call issues a document fetch or changes
\* the content identifier, the visibility of the loading, content and error
\* panels, the rendered markup, the page metadata or the position of the
\* document load; the onLanguageChange hook is called only if one is
\* registered, and languageChanged carries the call's language.
C16_SwitchLeavesContentAlone ==
  [][ SetLanguageSteps
      => /\ docFetches' = docFetches
         /\ contentType' = contentType
         /\ <<loadingHidden', contentHidden', errorHidden'>>
              = <<loadingHidden, contentHidden, errorHidden>>
         /\ <<contentHTML', docTitle', metaDescription'>>
              = <<contentHTML, docTitle, metaDescription>>
         /\ loader' = loader
         /\ hookCalls' # hookCalls => toolsLoader
         /\ events' # events => events' = currentLang' ]_vars

\* the document was requested in en and is still loading when a click
\* makes pt the current language
C16_Witness ==
  /\ loader.pc = "fetch1"
  /\ loader.lang = "en"
  /\ docFetches = <<"en">>
  /\ ~loadingHidden
  /\ task[1].pc = "done"
  /\ task[1].arg = "pt"
  /\ currentLang = "pt"
  /\ events = "pt"

\* C17 (as claimed): a document is fetched only for one of the known
\* identifiers; when the content query parameter is not a known identifier
\* and the path contains no known name, init() ends at once in the error
\* state, the loading panel never shown by it and no fetch issued.
C17_OnlyKnownIdentifiersLoad ==
  /\ docFetches # <<>> => contentType \in KnownTypeSet
  /\ ( /\ loader.pc # "idle"
       /\ location.content \notin KnownTypeSet
       /\ getContentTypeFromPath(location.path) = None )
     => /\ loader.pc = "done"
        /\ ~errorHidden
        /\ loadingHidden
        /\ contentHidden
        /\ docFetches = <<>>

\* C18: when every document fetch and body read settles, a load that shows
\* the loading panel comes to show the content or the error panel in its
\* place.
C18_LoadingEnds ==
  ViewLoading ~> (~ViewLoading /\ (ViewContent \/ ViewError))

\* both attempts of a load for a language other than en have failed and the
\* error panel has taken the place of the loading panel
C18_Witness ==
  /\ loader.pc = "done"
  /\ TruthyString(contentType)
  /\ loader.lang # "en"
  /\ loader.failed = {loader.lang, "en"}
  /\ ViewError
  /\ ~ViewLoading

\* C19: between the steps of the calls, once a setLanguage call has ended
\* and none has ended by an exception of the onLanguageChange hook, the
\* stored preference is the current language, however the calls overlap.
C19_StoredEqualsCurrent ==
  ( /\ \E t \in ClickTasks : task[t].pc = "done"
    /\ \A t \in ClickTasks : task[t].pc # "threw" )
  => stored = currentLang

\* two overlapping calls, for pt and then for en, ended in the reverse
\* order: the earlier request has set the current language last
C19_Witness ==
  /\ task[1].pc = "done"
  /\ task[1].arg = "pt"
  /\ task[2].pc = "done"
  /\ task[2].arg = "en"
  /\ currentLang = "pt"
  /\ stored = "pt"

\* C20: the cache entry of a language L is absent or an object parsed from
\* L's own file; it changes only in a step in which the body read of a
\* fetch of L succeeds, to the object that read yields, so no failed load
\* creates or alters it and the fallback bundle is never stored under L.
\* While the entry is absent, every setLanguage(L) call fetches L.
C20_CacheWrittenBySuccessfulFetchOnly ==
  /\ [](\A L \in LangCodes :
          translations[L] # Absent
          => /\ translations[L].lang = L
             /\ translations[L].ver \in 1..fetched[L])
  /\ [][ /\ \A L \in LangCodes :
              translations'[L] # translations[L]
              => \E t \in Tasks :
                   /\ task[t].pc = "json"
                   /\ task[t].ltCur = L
                   /\ translations'[L] = BundleObject(L, task[t].ltVer)
         /\ \A t \in ClickTasks :
              ( /\ task[t].pc = "idle"
                /\ task'[t].pc # "idle"
                /\ translations[task'[t].arg] = Absent )
              => /\ task'[t].pc = "fetch"
                 /\ task'[t].ltCur = task'[t].arg
                 /\ fetched'[task'[t].arg] = fetched[task'[t].arg] + 1 ]_vars

\* setLanguage(pt) has ended with the fallback bundle loaded in pt's place
\* and pt's entry absent; the next setLanguage(pt) fetches pt again
C20_Witness ==
  /\ task[1].pc = "done"
  /\ task[1].arg = "pt"
  /\ translations["pt"] = Absent
  /\ translations["en"] # Absent
  /\ task[2].pc = "fetch"
  /\ task[2].arg = "pt"
  /\ task[2].ltCur = "pt"
  /\ fetched["pt"] >= 2

\* how many of the loading, content and error panels are visible
VisiblePanels ==
  (IF loadingHidden THEN 0 ELSE 1) + (IF contentHidden THEN 0 ELSE 1)
  + (IF errorHidden THEN 0 ELSE 1)

\* C21: once ContentLoader.init has been called, exactly one of the
\* loading, content and error panels is visible between any two steps, for
\* every outcome of the fetches, body reads, render and metadata update.
C21_ExactlyOnePanel ==
  loader.pc # "idle" => VisiblePanels = 1

\* the document text arrived and marked.parse threw: the error panel alone
\* is visible
C21_Witness ==
  /\ loader.pc = "done"
  /\ TruthyString(loader.ret)
  /\ contentHTML = None
  /\ ~errorHidden
  /\ loadingHidden
  /\ contentHidden
  /\ VisiblePanels = 1

\* C22: the current language is always one of the supported languages, and
\* so is the fallback language: from construction on, through init and any
\* clicks on the language buttons and addSupportedLanguage calls.  The
\* list of supported languages only grows, at its end.
C22_CurrentLanguageIsSupported ==
  /\ [](/\ includes(supportedLanguages, currentLang)
        /\ includes(supportedLanguages, fallbackLang))
  /\ [][ /\ Len(supportedLanguages') >= Len(supportedLanguages)
         /\ \A i \in 1..Len(supportedLanguages) :
              supportedLanguages'[i] = supportedLanguages[i] ]_vars

\* ga was added before init wired the buttons, and a click has made it the
\* current language
C22_Witness ==
  /\ task[InitTask].pc = "done"
  /\ supportedLanguages = <<"en", "pt", "ga">>
  /\ \E t \in ClickTasks : task[t].pc = "done" /\ task[t].arg = "ga"
  /\ currentLang = "ga"

====
